---- MODULE Spec2Model ----
(***************************************************************************)
(* Model of the data-synchronisation layer of AFS FleetPro:                *)
(*   - ApiProvider (contexts/ApiContext): the four cached collections,     *)
(*     their fetch functions (cache check, retry timer), the CRUD          *)
(*     operations and the useEffect hooks that re-run the fetches;         *)
(*   - services/api.js: the request helpers (line items, complaints).      *)
(*                                                                         *)
(* React specifics that the model keeps:                                   *)
(*   - a fetch function is a useCallback closure: it reads the values of   *)
(*     lastFetched, retryCount and the collection captured by the render   *)
(*     that created it, while the functional setters (prev => ...) read    *)
(*     the current state;                                                  *)
(*   - the retry timer re-invokes the closure that scheduled it;           *)
(*   - an effect re-runs after a render in which one of its dependencies   *)
(*     (the fetch functions) changed identity.                             *)
(***************************************************************************)
EXTENDS Integers, Sequences, FiniteSets, Bags, TLC

\* ------------------------------------------------------------------------
\* Program constants
\* ------------------------------------------------------------------------
MAX_RETRY_COUNT == 3
CACHE_TTL == 5 * 60 * 1000
RetryBaseMs == 2000

Collections == {"serviceOrders", "customers", "vehicles", "technicians"}

\* The collections that have a "reload when the filter changes" effect.
FilteredCollections == {"serviceOrders", "customers", "vehicles"}

\* ------------------------------------------------------------------------
\* Bounds of the model
\* ------------------------------------------------------------------------
TickMs == CACHE_TTL \div 2   \* granularity of the clock: half a TTL
MaxTicks == 2         \* the clock advances at most this many times
\* Spec
MaxInflight == 3      \* list requests awaiting a response, focus collection
MaxBackground == 4    \* list requests awaiting a response, other collections
MaxTimers == 1        \* pending retry timers
MaxChain == 1         \* timer re-invocations followed along one chain
\* SpecFailing
MaxInflightFailing == 6
MaxBackgroundFailing == 7
MaxTimersFailing == 1
MaxChainFailing == 4
\* SpecCrud
MaxCallsCrud == 2         \* create / update / delete calls made
MaxInflightCrud == 3
MaxBackgroundCrud == 4
\* SpecStatus
MaxCallsStatus == 2       \* status / update calls made
\* SpecRead
MaxCallsRead == 1         \* create / update / delete calls made
MaxInflightRead == 3
MaxBackgroundRead == 5
\* SpecComplaints
MaxTextLen == 3           \* characters of a complaints text
MaxCallsComplaints == 1   \* create calls that reach the remote store
\* SpecItems
MaxCallsItems == 2        \* action item calls that reach the remote store
\* SpecPrice
MaxAmount == 2            \* largest price, hours and rate of a line item
\* SpecPage
MaxPageRequests == 3      \* requests the page has sent
\* SpecLine
MaxLineCalls == 2         \* addLineItem calls made
\* SpecAll
MaxInflightFilter == 4       \* SpecFilter
MaxBackgroundFilter == 6     \* SpecFilter
MaxInflightAll == 6       \* list requests awaiting a response, per collection
MaxTimersAll == 3
MaxChainAll == 1

StartTime == TickMs   \* Date.now() at construction (positive)

\* JavaScript null / falsy timestamp
Null == 0

ErrNone == "null"
ErrFailed == "Failed to load"

VARIABLES
    now,           \* Date.now()
    store,         \* serviceOrders / customers / vehicles / technicians state
    loading,       \* <collection>Loading state
    error,         \* <collection>Error state
    lastFetched,   \* lastFetched state, Null when never fetched
    retryCount,    \* retryCount state
    remote,        \* the remote collections behind the REST API
    inflight,      \* bag of list requests awaiting their response
    timers,        \* bag of pending setTimeout callbacks
    effects,       \* collections whose fetch function changed in the last render
    ret,           \* what the last fetch invocation or response returned
    focus,         \* the collection whose list responses arrive in this run
    calls,         \* create / update / delete / status requests in flight
    issued,        \* number of such requests sent so far
    nextId,        \* the id the remote store gives to the next created record
    opret,         \* the last event of a create / update / delete / status call
    actionItem,    \* the remote action item whose line items are edited
    lineCalls,     \* the addLineItem calls and how far each has got
    lineClock,     \* number of requests the remote action item has handled
    dataComplaints,\* the data.complaints a caller holds for createServiceOrder
    parsed,        \* what parseMultipleComplaints returned for its text
    page,          \* the state of the service orders page
    pageRemote,    \* the service orders behind the API the page calls
    rowItem,       \* the line item a row of the detail panel shows
    priceCell,     \* what the price cell of that row shows
    serviceOrderFilters,  \* serviceOrderFilters state
    customerSearchQuery   \* customerSearchQuery state

\* The state of the list fetches, of the mutations and of the line items.
fetchVars == <<now, loading, error, lastFetched, retryCount, inflight, timers,
               ret, focus>>
mutVars == <<calls, issued, nextId, opret>>
lineVars == <<actionItem, lineCalls, lineClock>>
filterVars == <<serviceOrderFilters, customerSearchQuery>>
outerVars == <<dataComplaints, parsed, page, pageRemote, rowItem, priceCell,
               filterVars>>

vars == <<now, store, loading, error, lastFetched, retryCount, remote,
          inflight, timers, effects, ret, focus, calls, issued, nextId,
          opret, actionItem, lineCalls, lineClock, dataComplaints, parsed,
          page, pageRemote, rowItem, priceCell, serviceOrderFilters,
          customerSearchQuery>>

\* ------------------------------------------------------------------------
\* Helpers
\* ------------------------------------------------------------------------
RECURSIVE Pow2(_)
Pow2(n) == IF n = 0 THEN 1 ELSE 2 * Pow2(n - 1)

\* 2000 * Math.pow(2, retryCount.<collection>)
RetryDelay(r) == RetryBaseMs * Pow2(r)

\* Mutant of CacheFresh: the comparison with the TTL is reversed.
CacheFreshReversed(last, t) == last # Null /\ (t - last) > CACHE_TTL

\* lastFetched.X && (Date.now() - lastFetched.X) < CACHE_TTL
CacheFresh(last, t) == last # Null /\ (t - last) < CACHE_TTL

\* Mutant of CacheHit: forceRefresh is not looked at.
CacheHitIgnoresForce(force, last, t) == CacheFresh(last, t)

\* The first branch of every fetch function: serve from memory.
CacheHit(force, last, t) == ~force /\ CacheFresh(last, t)

\* The record of the last step of a fetch function: "cache" and "network"
\* for the synchronous part of an invocation (served from memory, or request
\* sent), "ok" and "failed" for the continuation after the response, with
\* the value the promise resolves to; was is the retryCount a successful
\* response found, or the retryCount the closure of a failed request had
\* captured.
Return(c, via, force, value, was) ==
    [coll |-> c, via |-> via, force |-> force, value |-> value, was |-> was]

\* serviceOrderFilters initial state; null is the empty string.
NoFilters == [status |-> "", customerId |-> "", vehicleId |-> ""]

\* What the remote store answers to api.X.getAll: the service orders of
\* the status asked for, if any. The records here carry no customer or
\* vehicle, so those parameters and the customer search select nothing.
ServerList(c, list, filters) ==
    IF c = "serviceOrders" /\ filters.status # ""
    THEN SelectSeq(list, LAMBDA o : o.status = filters.status)
    ELSE list

\* A list request issued by the closure that captured retryCount.X,
\* lastFetched.X and the collection as (capRetry, capLast, capData).
\* snap is what the server answered to getAll(serviceOrderFilters) when it
\* read the collection; chain counts the
\* timer re-invocations that led to this request.
Request(c, force, capRetry, capLast, capData, chain) ==
    [force |-> force, capRetry |-> capRetry, capLast |-> capLast,
     capData |-> capData, chain |-> chain,
     snap |-> ServerList(c, remote[c], serviceOrderFilters)]

\* setTimeout(() => fetchX(forceRefresh), delay), scheduled by request r.
Timer(r) ==
    [force |-> r.force, capRetry |-> r.capRetry, capLast |-> r.capLast,
     capData |-> r.capData, chain |-> r.chain,
     delay |-> RetryDelay(r.capRetry)]

\* The last event of a create / update / delete / status call: "sent" when
\* its request leaves, "rejected" when the promise rejects with error,
\* "resolved" when it resolves; was is the status the in-memory order had
\* before a resolved status call replaced it.
Outcome(op, id, status, event, err, was) ==
    [op |-> op, id |-> id, status |-> status, event |-> event,
     error |-> err, was |-> was]

\* The remote action item before any line item is added: it has no
\* line_items field yet.
InitActionItem == [id |-> 1]

\* An addLineItem call that has not started.
IdleLineCall ==
    [phase |-> "idle", item |-> "", ok |-> TRUE, read |-> << >>,
     readAt |-> 0, wroteAt |-> 0, op |-> "none", index |-> 0, sent |-> 0]

\* ------------------------------------------------------------------------
\* Initial state: the provider has rendered once and its four effects have
\* run: the mount effect called every fetch function, the three filter
\* effects called theirs with forceRefresh = true.
\* ------------------------------------------------------------------------
\* Text is a sequence of one-character strings.
Brakes == << "b", "r", "a", "k", "e", "s" >>

\* data.complaints as a caller may pass it: a string, an array of complaint
\* objects, or nothing at all.
StringOf(t) == [kind |-> "string", text |-> t, list |-> << >>]
ArrayOf(l) == [kind |-> "array", text |-> << >>, list |-> l]
Undefined == [kind |-> "undefined", text |-> << >>, list |-> << >>]

Complaint(i, description) ==
    [id |-> i, description |-> description, photos |-> << >>]

NotParsed == [done |-> FALSE, value |-> << >>]

\* ------------------------------------------------------------------------
\* The price cell of a line item row
\* ------------------------------------------------------------------------
\* An optional number: << >> when the field is not set, << n >> when it is.
Unset == << >>
Set(n) == << n >>

\* JavaScript truthiness of an optional number.
Truthy(x) == x # Unset /\ x[1] # 0

\* `$${n.toFixed(2)}` and the '-' placeholder.
Dollars(n) == [text |-> "$", amount |-> n, decimals |-> 2]
Dash == [text |-> "-", amount |-> 0, decimals |-> 0]
NotRendered == [text |-> "", amount |-> 0, decimals |-> 0]

NoItem == [price |-> Unset, hours |-> Unset, rate |-> Unset]

\* item.price ? `$${item.price.toFixed(2)}` :
\*   (item.hours && item.rate) ? `$${(item.hours * item.rate).toFixed(2)}` : '-'
PriceCell(item) ==
    IF Truthy(item.price) THEN Dollars(item.price[1])
    ELSE IF Truthy(item.hours) /\ Truthy(item.rate)
         THEN Dollars(item.hours[1] * item.rate[1])
         ELSE Dash

\* ------------------------------------------------------------------------
\* The service orders page: its own list of orders, fetched with
\* api.getServiceOrders, and the filtered rows it shows.
\* ------------------------------------------------------------------------
PageOrder(id, number, status, customer, complaint) ==
    [id |-> id, number |-> number, status |-> status,
     customer_id |-> customer, complaint |-> complaint]

PageOrders ==
    << PageOrder(1, << "S", "1" >>, "service_requested", "c1", << "B" >>),
       PageOrder(2, << "S", "2" >>, "completed", "c2", << "o" >>) >>

PageCustomers ==
    << [id |-> "c1", name |-> << "A" >>], [id |-> "c2", name |-> << "b" >>] >>

NoFilter == [status |-> "", customer |-> "", searchQuery |-> << >>]

MsgNone == ""
MsgDeleted == "Service order deleted successfully"
MsgDeleteFailed == "Failed to delete service order"
MsgLoadFailed == "Failed to load service orders"

ListRequest(n, ok, snap) == [n |-> n, ok |-> ok, snap |-> snap]

\* The page after its mount effect: nothing loaded, the first list request
\* sent; the customers are taken as loaded.
PageMounted ==
    [serviceOrders |-> << >>, customers |-> PageCustomers,
     filterModel |-> NoFilter, selectedServiceOrder |-> 0,
     deleteDialogOpen |-> FALSE, snackbar |-> MsgNone,
     loading |-> TRUE, error |-> ErrNone,
     lists |-> {ListRequest(1, TRUE, PageOrders)}, deletes |-> {},
     sent |-> 1]

\* String.prototype.toLowerCase and String.prototype.includes
LowerCase(ch) ==
    CASE ch = "A" -> "a" [] ch = "B" -> "b" [] ch = "S" -> "s" [] OTHER -> ch
toLowerCase(t) == [i \in 1..Len(t) |-> LowerCase(t[i])]
includes(t, q) ==
    \E i \in 0..(Len(t) - Len(q)) : SubSeq(t, i + 1, i + Len(q)) = q

\* customers.find(c => c.id === order.customer_id) && its name matches
MatchesCustomer(customers, order, query) ==
    \E i \in 1..Len(customers) :
        /\ customers[i].id = order.customer_id
        /\ \A j \in 1..(i - 1) : customers[j].id # order.customer_id
        /\ includes(toLowerCase(customers[i].name), query)

\* The callback of serviceOrders.filter in filteredServiceOrders.
Shown(order, filterModel, customers) ==
    IF filterModel.status # "" /\ order.status # filterModel.status
    THEN FALSE
    ELSE IF filterModel.customer # ""
             /\ order.customer_id # filterModel.customer
    THEN FALSE
    ELSE IF filterModel.searchQuery # << >>
    THEN LET query == toLowerCase(filterModel.searchQuery)
         IN \/ includes(toLowerCase(order.number), query)
            \/ includes(toLowerCase(order.complaint), query)
            \/ MatchesCustomer(customers, order, query)
    ELSE TRUE

filteredServiceOrders(serviceOrders, filterModel, customers) ==
    LET Keep(order) == Shown(order, filterModel, customers)
    IN SelectSeq(serviceOrders, Keep)

\* The rows of the page p.
Rows(p) == filteredServiceOrders(p.serviceOrders, p.filterModel, p.customers)

PageErr == "Request failed"

FilterInputs ==
    [status : {"", "service_requested"}, customer : {"", "c2"},
     searchQuery : {<< >>, << "B" >>}]

RemoveOrder(orders, id) ==
    LET Other(o) == o.id # id IN SelectSeq(orders, Other)

PageUnchanged ==
    UNCHANGED <<store, remote, effects, fetchVars, mutVars, lineVars,
                dataComplaints, parsed, rowItem, priceCell, filterVars>>

\* The onChange / onClick handlers of the filter controls.
SetFilterModel(f) ==
    /\ f # page.filterModel
    /\ page' = [page EXCEPT !.filterModel = f]
    /\ UNCHANGED pageRemote
    /\ PageUnchanged

\* openDeleteDialog on a row of the grid.
OpenDeleteDialog(i) ==
    /\ i \in 1..Len(Rows(page))
    /\ ~page.deleteDialogOpen
    /\ page' = [page EXCEPT !.selectedServiceOrder = Rows(page)[i].id,
                            !.deleteDialogOpen = TRUE]
    /\ UNCHANGED pageRemote
    /\ PageUnchanged

\* handleDeleteServiceOrder up to the await: the delete request is sent and
\* the remote store handles it.
HandleDeleteCall(ok) ==
    /\ page.deleteDialogOpen
    /\ LET id == page.selectedServiceOrder
       IN /\ page' = [page EXCEPT
                         !.deletes = @ \cup {[n |-> page.sent + 1, id |-> id,
                                              ok |-> ok]},
                         !.sent = @ + 1]
          /\ pageRemote' = IF ok THEN RemoveOrder(pageRemote, id)
                           ELSE pageRemote
    /\ PageUnchanged

\* handleDeleteServiceOrder after a successful delete: the snackbar, the
\* dialog closed, and fetchServiceOrders() up to its await.
HandleDeleteDone(k, listOk) ==
    /\ k \in page.deletes /\ k.ok
    /\ page' = [page EXCEPT
                   !.deletes = @ \ {k},
                   !.snackbar = MsgDeleted,
                   !.deleteDialogOpen = FALSE,
                   !.loading = TRUE,
                   !.error = ErrNone,
                   !.lists = @ \cup {ListRequest(page.sent + 1, listOk,
                                                 pageRemote)},
                   !.sent = @ + 1]
    /\ UNCHANGED pageRemote
    /\ PageUnchanged

\* The catch branch of handleDeleteServiceOrder.
HandleDeleteFailed(k) ==
    /\ k \in page.deletes /\ ~k.ok
    /\ page' = [page EXCEPT !.deletes = @ \ {k},
                            !.snackbar = MsgDeleteFailed]
    /\ UNCHANGED pageRemote
    /\ PageUnchanged

\* fetchServiceOrders of the page after its await.
PageListDone(r) ==
    /\ r \in page.lists
    /\ page' = IF r.ok
               THEN [page EXCEPT !.lists = @ \ {r},
                                 !.serviceOrders = r.snap,
                                 !.loading = FALSE]
               ELSE [page EXCEPT !.lists = @ \ {r},
                                 !.error = PageErr,
                                 !.snackbar = MsgLoadFailed,
                                 !.loading = FALSE]
    /\ UNCHANGED pageRemote
    /\ PageUnchanged

InitRemote ==
    [c \in Collections |->
        IF c = "serviceOrders"
        THEN << [id |-> 1, status |-> "service_requested", note |-> "a",
                 complaints |-> << Complaint(1, Brakes) >>,
                 action_items |-> << >>] >>
        ELSE << [id |-> 1, v |-> "a"] >>]

\* The ids the remote store gives out next: one counter per collection and
\* one for action items.
ItemIds(orders) ==
    UNION {{orders[i].action_items[j].id : j \in DOMAIN orders[i].action_items}
           : i \in DOMAIN orders}

FirstIds(r) ==
    [c \in Collections \cup {"actionItems"} |->
        IF c = "actionItems"
        THEN Cardinality(ItemIds(r["serviceOrders"])) + 1
        ELSE Len(r[c]) + 1]

InitRequests ==
    [c \in Collections |->
        LET R(f) == [force |-> f, capRetry |-> 0, capLast |-> Null,
                     capData |-> << >>, chain |-> 0, snap |-> InitRemote[c]]
        IN SetToBag({R(FALSE)}) (+)
           (IF c \in FilteredCollections THEN SetToBag({R(TRUE)}) ELSE EmptyBag)]

Init ==
    /\ now = StartTime
    /\ store = [c \in Collections |-> << >>]
    /\ loading = [c \in Collections |-> TRUE]
    /\ error = [c \in Collections |-> ErrNone]
    /\ lastFetched = [c \in Collections |-> Null]
    /\ retryCount = [c \in Collections |-> 0]
    /\ remote = InitRemote
    /\ inflight = InitRequests
    /\ timers = [c \in Collections |-> EmptyBag]
    /\ effects = {}
    /\ ret = Return("none", "none", FALSE, << >>, 0)
    /\ focus \in Collections
    /\ calls = {}
    /\ issued = 0
    /\ nextId = FirstIds(InitRemote)
    /\ opret = Outcome("none", 0, "", "none", "", "")
    /\ actionItem = InitActionItem
    /\ lineCalls = [k \in 1..MaxLineCalls |-> IdleLineCall]
    /\ lineClock = 0
    /\ dataComplaints = Undefined
    /\ parsed = NotParsed
    /\ page = PageMounted
    /\ pageRemote = PageOrders
    /\ rowItem = NoItem
    /\ priceCell = NotRendered
    /\ serviceOrderFilters = NoFilters
    /\ customerSearchQuery = ""

\* ------------------------------------------------------------------------
\* fetchServiceOrders / fetchCustomers / fetchVehicles / fetchTechnicians
\* ------------------------------------------------------------------------
\* The synchronous part of fetchX(forceRefresh) run by a closure that
\* captured (capRetry, capLast, capData): serve the captured collection
\* from memory, or flag the collection as loading, clear its error and
\* send the list request.
Invoke(c, force, capRetry, capLast, capData, chain) ==
    IF CacheHit(force, capLast, now)
    THEN /\ ret' = Return(c, "cache", force, capData, 0)
         /\ UNCHANGED <<loading, error, inflight>>
    ELSE /\ loading' = [loading EXCEPT ![c] = TRUE]
         /\ error' = [error EXCEPT ![c] = ErrNone]
         /\ inflight' = [inflight EXCEPT ![c] =
                @ (+) SetToBag({Request(c, force, capRetry, capLast, capData,
                                        chain)})]
         /\ ret' = Return(c, "network", force, << >>, 0)

\* A caller invokes the fetch function of the current render.
CallerFetch(c, force) ==
    /\ effects = {}
    /\ Invoke(c, force, retryCount[c], lastFetched[c], store[c], 0)
    /\ UNCHANGED <<now, store, lastFetched, retryCount, remote, timers,
                   effects, focus>>
    /\ UNCHANGED <<mutVars, lineVars, outerVars>>

\* Mutant of FetchSuccess: the retry counter is not reset.
FetchSuccessKeepsRetryCount(c, r) ==
    /\ effects = {}
    /\ BagIn(r, inflight[c])
    /\ inflight' = [inflight EXCEPT ![c] = @ (-) SetToBag({r})]
    /\ store' = [store EXCEPT ![c] = r.snap]
    /\ lastFetched' = [lastFetched EXCEPT ![c] = now]
    /\ loading' = [loading EXCEPT ![c] = FALSE]
    /\ effects' = {c}
    /\ ret' = Return(c, "ok", r.force, r.snap, retryCount[c])
    /\ UNCHANGED <<now, error, remote, timers, focus, retryCount>>
    /\ UNCHANGED <<mutVars, lineVars, outerVars>>

\* The same keeping the collection when another response has been stored
\* since the closure that sent the request was built.
FetchSuccessDropsStale(c, r) ==
    /\ effects = {}
    /\ BagIn(r, inflight[c])
    /\ inflight' = [inflight EXCEPT ![c] = @ (-) SetToBag({r})]
    /\ store' = [store EXCEPT ![c] =
                    IF r.capLast < lastFetched[c] THEN @ ELSE r.snap]
    /\ lastFetched' = [lastFetched EXCEPT ![c] = now]
    /\ retryCount' = [retryCount EXCEPT ![c] = 0]
    /\ loading' = [loading EXCEPT ![c] = FALSE]
    /\ effects' = {c}
    /\ ret' = Return(c, "ok", r.force, r.snap, retryCount[c])
    /\ UNCHANGED <<now, error, remote, timers, focus>>
    /\ UNCHANGED <<mutVars, lineVars, outerVars>>

\* try branch: the response of a list request arrives with data.
FetchSuccess(c, r) ==
    /\ effects = {}
    /\ BagIn(r, inflight[c])
    /\ inflight' = [inflight EXCEPT ![c] = @ (-) SetToBag({r})]
    /\ store' = [store EXCEPT ![c] = r.snap]
    /\ lastFetched' = [lastFetched EXCEPT ![c] = now]
    /\ retryCount' = [retryCount EXCEPT ![c] = 0]
    /\ loading' = [loading EXCEPT ![c] = FALSE]
    /\ effects' = {c}
    /\ ret' = Return(c, "ok", r.force, r.snap, retryCount[c])
    /\ UNCHANGED <<now, error, remote, timers, focus>>
    /\ UNCHANGED <<mutVars, lineVars, outerVars>>

\* Mutant of FetchFailure: the catch branch empties the collection.
FetchFailureClearsData(c, r) ==
    /\ effects = {}
    /\ BagIn(r, inflight[c])
    /\ inflight' = [inflight EXCEPT ![c] = @ (-) SetToBag({r})]
    /\ error' = [error EXCEPT ![c] = ErrFailed]
    /\ loading' = [loading EXCEPT ![c] = FALSE]
    /\ store' = [store EXCEPT ![c] = << >>]
    /\ IF r.capRetry < MAX_RETRY_COUNT
       THEN /\ retryCount' = [retryCount EXCEPT ![c] = @ + 1]
            /\ timers' = [timers EXCEPT ![c] = @ (+) SetToBag({Timer(r)})]
            /\ effects' = {c}
       ELSE UNCHANGED <<retryCount, timers, effects>>
    /\ ret' = Return(c, "failed", r.force, << >>, r.capRetry)
    /\ UNCHANGED <<now, lastFetched, remote, focus>>
    /\ UNCHANGED <<mutVars, lineVars, outerVars>>

\* catch branch: the list request fails.  The retry test and the delay
\* read the retryCount captured by the closure; the increment reads the
\* current state.
FetchFailure(c, r) ==
    /\ effects = {}
    /\ BagIn(r, inflight[c])
    /\ inflight' = [inflight EXCEPT ![c] = @ (-) SetToBag({r})]
    /\ error' = [error EXCEPT ![c] = ErrFailed]
    /\ loading' = [loading EXCEPT ![c] = FALSE]
    /\ IF r.capRetry < MAX_RETRY_COUNT
       THEN /\ retryCount' = [retryCount EXCEPT ![c] = @ + 1]
            /\ timers' = [timers EXCEPT ![c] = @ (+) SetToBag({Timer(r)})]
            /\ effects' = {c}
       ELSE UNCHANGED <<retryCount, timers, effects>>
    /\ ret' = Return(c, "failed", r.force, << >>, r.capRetry)
    /\ UNCHANGED <<now, store, lastFetched, remote, focus>>
    /\ UNCHANGED <<mutVars, lineVars, outerVars>>

\* A retry timer fires and calls the closure that scheduled it.
TimerFires(c, t) ==
    /\ effects = {}
    /\ BagIn(t, timers[c])
    /\ timers' = [timers EXCEPT ![c] = @ (-) SetToBag({t})]
    /\ Invoke(c, t.force, t.capRetry, t.capLast, t.capData, t.chain + 1)
    /\ UNCHANGED <<now, store, lastFetched, retryCount, remote, effects,
                   focus>>
    /\ UNCHANGED <<mutVars, lineVars, outerVars>>

\* The effects of the render that follows a change of a fetch function.
\* The mount effect depends on all four fetch functions and calls each of
\* them without forceRefresh; the filter effect of a changed collection
\* calls its fetch function with forceRefresh = true.
EffectRequests(c, changed) ==
    (IF CacheHit(FALSE, lastFetched[c], now) THEN EmptyBag
     ELSE SetToBag({Request(c, FALSE, retryCount[c], lastFetched[c],
                           store[c], 0)}))
    (+)
    (IF c \in changed \cap FilteredCollections
     THEN SetToBag({Request(c, TRUE, retryCount[c], lastFetched[c],
                           store[c], 0)})
     ELSE EmptyBag)

RunEffects ==
    /\ effects # {}
    /\ LET new == [c \in Collections |-> EffectRequests(c, effects)]
           touched == {c \in Collections : new[c] # EmptyBag}
       IN /\ inflight' = [c \in Collections |-> inflight[c] (+) new[c]]
          /\ loading' = [c \in Collections |->
                            IF c \in touched THEN TRUE ELSE loading[c]]
          /\ error' = [c \in Collections |->
                            IF c \in touched THEN ErrNone ELSE error[c]]
    /\ effects' = {}
    /\ UNCHANGED <<now, store, lastFetched, retryCount, remote, timers, ret,
                   focus>>
    /\ UNCHANGED <<mutVars, lineVars, outerVars>>

\* The values a consumer passes to the filter setters.
FilterNames == {"status", "customerId", "vehicleId"}
FilterValues == {"", "service_requested", "tech_assigned"}
SearchInputs == {"", "acme"}

\* setServiceOrderFilter without the re-render: the fetch function keeps
\* its identity and no effect runs.
SetServiceOrderFilterSilently(filterName, value) ==
    /\ effects = {}
    /\ serviceOrderFilters' = [serviceOrderFilters EXCEPT ![filterName] = value]
    /\ UNCHANGED <<customerSearchQuery, store, remote, effects, fetchVars,
                   mutVars, lineVars, dataComplaints, parsed, page,
                   pageRemote, rowItem, priceCell>>

\* setServiceOrderFilter(filterName, value): the updater returns a new
\* filters object, so fetchServiceOrders is rebuilt and the effects that
\* depend on it run in the render that follows.
SetServiceOrderFilter(filterName, value) ==
    /\ effects = {}
    /\ serviceOrderFilters' = [serviceOrderFilters EXCEPT ![filterName] = value]
    /\ effects' = {"serviceOrders"}
    /\ UNCHANGED <<customerSearchQuery, store, remote, fetchVars, mutVars,
                   lineVars, dataComplaints, parsed, page, pageRemote,
                   rowItem, priceCell>>

\* clearServiceOrderFilters()
ClearServiceOrderFilters ==
    /\ effects = {}
    /\ serviceOrderFilters' = NoFilters
    /\ effects' = {"serviceOrders"}
    /\ UNCHANGED <<customerSearchQuery, store, remote, fetchVars, mutVars,
                   lineVars, dataComplaints, parsed, page, pageRemote,
                   rowItem, priceCell>>

\* searchCustomers(query): a string state, so setting the value it already
\* has renders nothing.
SearchCustomers(query) ==
    /\ effects = {}
    /\ query # customerSearchQuery
    /\ customerSearchQuery' = query
    /\ effects' = {"customers"}
    /\ UNCHANGED <<serviceOrderFilters, store, remote, fetchVars, mutVars,
                   lineVars, dataComplaints, parsed, page, pageRemote,
                   rowItem, priceCell>>

\* Time passes.
Tick ==
    /\ effects = {}
    /\ now' = now + TickMs
    /\ UNCHANGED <<store, loading, error, lastFetched, retryCount, remote,
                   inflight, timers, effects, ret, focus>>
    /\ UNCHANGED <<mutVars, lineVars, outerVars>>

\* ------------------------------------------------------------------------
\* Create / update / delete / status of the records of a collection.
\* The remote store handles a request when it is sent; the response
\* arrives later, in any order.  ok says whether the remote call succeeds.
\* ------------------------------------------------------------------------
SERVICE_ORDER_STATUSES ==
    {"service_requested", "tech_assigned", "tech_en_route", "tech_arrived",
     "diagnosis_in_progress", "awaiting_approval", "parts_being_sourced",
     "repair_in_progress", "quality_check", "repair_complete",
     "invoice_sent"}

\* The statuses a caller passes: the enumerated ones and one that is not.
StatusInputs == SERVICE_ORDER_STATUSES \cup {"bogus"}

\* The values a caller writes to the free-text field of a record.
DataInputs == {"b"}

\* A blank, as String.prototype.trim removes it.
IsBlank(ch) == ch = " "

\* String.prototype.split(','): the pieces between the commas.
RECURSIVE Split(_)
Split(t) ==
    IF \A i \in 1..Len(t) : t[i] # ","
    THEN << t >>
    ELSE LET i == CHOOSE k \in 1..Len(t) :
                      t[k] = "," /\ \A m \in 1..(k - 1) : t[m] # ","
         IN << SubSeq(t, 1, i - 1) >> \o Split(SubSeq(t, i + 1, Len(t)))

\* String.prototype.trim
RECURSIVE Trim(_)
Trim(t) ==
    IF t = << >> THEN t
    ELSE IF IsBlank(Head(t)) THEN Trim(Tail(t))
    ELSE IF IsBlank(t[Len(t)]) THEN Trim(SubSeq(t, 1, Len(t) - 1))
    ELSE t

\* .map(text => text.trim())
TrimAll(l) == [i \in 1..Len(l) |-> Trim(l[i])]

NonEmpty(t) == Len(t) > 0

\* The same without the filter step: empty entries become complaints.
parseKeepsEmptyEntries(complaintsText) ==
    IF complaintsText = << >> THEN << >>
    ELSE LET complaints == TrimAll(Split(complaintsText))
         IN [index \in 1..Len(complaints) |->
                Complaint(index, complaints[index])]

\* api.parseMultipleComplaints
parseMultipleComplaints(complaintsText) ==
    IF complaintsText = << >> THEN << >>
    ELSE LET complaints ==
                 SelectSeq(TrimAll(Split(complaintsText)), NonEmpty)
         IN [index \in 1..Len(complaints) |->
                Complaint(index, complaints[index])]

\* The typeof data.complaints === 'string' branch of createServiceOrder and
\* of api.serviceOrders.create.
ParsedIfString(complaints) ==
    IF complaints.kind = "string"
    THEN ArrayOf(parseMultipleComplaints(complaints.text))
    ELSE complaints

\* The same test accepting an empty array.
MissingOnlyWhenUndefined(complaints) == complaints.kind = "undefined"

\* !data.complaints || data.complaints.length === 0
MissingComplaints(complaints) ==
    complaints.kind = "undefined" \/ Len(complaints.list) = 0

\* The complaints of a new service order in the runs that create records.
ComplaintInputs == {StringOf(<< >>), ArrayOf(<< Complaint(1, Brakes) >>)}

ErrComplaint == "At least one complaint is required"
ErrRequest == "Request failed"

Has(list, id) == \E i \in DOMAIN list : list[i].id = id

Get(list, id) == list[CHOOSE i \in DOMAIN list : list[i].id = id]

\* The ids a caller can name: those of the records in memory or remote.
KnownIds(c) ==
    {store[c][i].id : i \in DOMAIN store[c]} \cup
    {remote[c][i].id : i \in DOMAIN remote[c]}

\* prev.map(x => x.id === id ? result : x)
ReplaceById(prev, id, result) ==
    [i \in DOMAIN prev |-> IF prev[i].id = id THEN result ELSE prev[i]]

\* prev.filter(x => x.id !== id)
RemoveById(prev, id) == SelectSeq(prev, LAMBDA x : x.id # id)

\* The record the remote store creates from the data of a POST.
ServerCreated(c, data, complaints) ==
    IF c = "serviceOrders"
    THEN [id |-> nextId[c], status |-> "service_requested", note |-> data,
          complaints |-> complaints, action_items |-> << >>]
    ELSE [id |-> nextId[c], v |-> data]

\* The stored record after a PATCH with data.
ServerPatched(c, o, data) ==
    IF c = "serviceOrders" THEN [o EXCEPT !.note = data]
    ELSE [o EXCEPT !.v = data]

\* The stored service order after a PATCH of its status.
ServerStatus(o, status) == [o EXCEPT !.status = status]

\* A request awaiting its response; result holds the body of a successful
\* response.
Call(n, c, op, id, status, ok, result) ==
    [n |-> n, coll |-> c, op |-> op, id |-> id, status |-> status,
     ok |-> ok, result |-> result]

\* createServiceOrder / createCustomer / createVehicle up to the request.
\* api.serviceOrders.create throws before any request when the complaints
\* are empty.
CreateCall(c, data, complaints, ok) ==
    /\ effects = {}
    /\ c \in FilteredCollections
    /\ IF c = "serviceOrders" /\ MissingComplaints(ParsedIfString(complaints))
       THEN /\ opret' = Outcome("create", 0, "", "rejected", ErrComplaint, "")
            /\ UNCHANGED <<calls, issued, nextId, remote>>
       ELSE LET result == ServerCreated(c, data,
                                        ParsedIfString(complaints).list)
            IN /\ issued' = issued + 1
               /\ calls' = calls \cup
                     {Call(issued + 1, c, "create", result.id, "", ok,
                           IF ok THEN << result >> ELSE << >>)}
               /\ IF ok
                  THEN /\ remote' = [remote EXCEPT ![c] = Append(@, result)]
                       /\ nextId' = [nextId EXCEPT ![c] = @ + 1]
                  ELSE UNCHANGED <<remote, nextId>>
               /\ opret' = Outcome("create", result.id, "", "sent", "", "")
    /\ UNCHANGED <<store, effects, fetchVars, lineVars, outerVars>>

\* updateServiceOrder / updateCustomer / updateVehicle up to the request.
UpdateCall(c, id, data, ok) ==
    /\ effects = {}
    /\ c \in FilteredCollections
    /\ LET done == ok /\ Has(remote[c], id)
           result == IF done
                     THEN << ServerPatched(c, Get(remote[c], id), data) >>
                     ELSE << >>
       IN /\ calls' = calls \cup
                {Call(issued + 1, c, "update", id, "", done, result)}
          /\ remote' = IF done
                       THEN [remote EXCEPT ![c] = ReplaceById(@, id, result[1])]
                       ELSE remote
    /\ issued' = issued + 1
    /\ opret' = Outcome("update", id, "", "sent", "", "")
    /\ UNCHANGED <<store, effects, nextId, fetchVars, lineVars, outerVars>>

\* deleteServiceOrder / deleteCustomer / deleteVehicle up to the request.
DeleteCall(c, id, ok) ==
    /\ effects = {}
    /\ c \in FilteredCollections
    /\ LET done == ok /\ Has(remote[c], id)
       IN /\ calls' = calls \cup
                {Call(issued + 1, c, "delete", id, "", done, << >>)}
          /\ remote' = IF done
                       THEN [remote EXCEPT ![c] = RemoveById(@, id)]
                       ELSE remote
    /\ issued' = issued + 1
    /\ opret' = Outcome("delete", id, "", "sent", "", "")
    /\ UNCHANGED <<store, effects, nextId, fetchVars, lineVars, outerVars>>

\* Mutant of StatusCall: a move back to the first status is refused.
StatusCallForwardOnly(id, status, ok) ==
    /\ effects = {}
    /\ IF status = "service_requested"
       THEN /\ opret' = Outcome("status", id, status, "rejected",
                                "InvalidTransition", "")
            /\ UNCHANGED <<calls, remote, issued>>
       ELSE LET c == "serviceOrders"
                done == ok /\ Has(remote[c], id)
                result == IF done
                          THEN << ServerStatus(Get(remote[c], id), status) >>
                          ELSE << >>
            IN /\ calls' = calls \cup
                     {Call(issued + 1, c, "status", id, status, done, result)}
               /\ remote' = IF done
                            THEN [remote EXCEPT
                                     ![c] = ReplaceById(@, id, result[1])]
                            ELSE remote
               /\ issued' = issued + 1
               /\ opret' = Outcome("status", id, status, "sent", "", "")
    /\ UNCHANGED <<store, effects, nextId, fetchVars, lineVars, outerVars>>

\* updateServiceOrderStatus up to the request: the status goes to the
\* remote store as it was passed.
StatusCall(id, status, ok) ==
    /\ effects = {}
    /\ LET c == "serviceOrders"
           done == ok /\ Has(remote[c], id)
           result == IF done
                     THEN << ServerStatus(Get(remote[c], id), status) >>
                     ELSE << >>
       IN /\ calls' = calls \cup
                {Call(issued + 1, c, "status", id, status, done, result)}
          /\ remote' = IF done
                       THEN [remote EXCEPT ![c] = ReplaceById(@, id, result[1])]
                       ELSE remote
    /\ issued' = issued + 1
    /\ opret' = Outcome("status", id, status, "sent", "", "")
    /\ UNCHANGED <<store, effects, nextId, fetchVars, lineVars, outerVars>>

\* The response of a create arrives: service orders are prepended,
\* customers and vehicles appended.
\* The same placing the new record last in every collection.
CreateDoneAppends(k) ==
    /\ effects = {}
    /\ k \in calls /\ k.op = "create" /\ k.ok
    /\ calls' = calls \ {k}
    /\ store' = [store EXCEPT ![k.coll] = Append(@, k.result[1])]
    /\ effects' = {k.coll}
    /\ opret' = Outcome("create", k.id, "", "resolved", "", "")
    /\ UNCHANGED <<remote, issued, nextId, fetchVars, lineVars, outerVars>>

CreateDone(k) ==
    /\ effects = {}
    /\ k \in calls /\ k.op = "create" /\ k.ok
    /\ calls' = calls \ {k}
    /\ store' = [store EXCEPT ![k.coll] =
                    IF k.coll = "serviceOrders" THEN << k.result[1] >> \o @
                    ELSE Append(@, k.result[1])]
    /\ effects' = {k.coll}
    /\ opret' = Outcome("create", k.id, "", "resolved", "", "")
    /\ UNCHANGED <<remote, issued, nextId, fetchVars, lineVars, outerVars>>

\* The response of an update arrives: the record with that id is replaced
\* by the response.
\* The same moving the updated record to the end.
UpdateDoneMovesLast(k) ==
    /\ effects = {}
    /\ k \in calls /\ k.op = "update" /\ k.ok
    /\ calls' = calls \ {k}
    /\ store' = [store EXCEPT ![k.coll] =
                    IF Has(@, k.id)
                    THEN Append(RemoveById(@, k.id), k.result[1])
                    ELSE @]
    /\ effects' = {k.coll}
    /\ opret' = Outcome("update", k.id, "", "resolved", "", "")
    /\ UNCHANGED <<remote, issued, nextId, fetchVars, lineVars, outerVars>>

UpdateDone(k) ==
    /\ effects = {}
    /\ k \in calls /\ k.op = "update" /\ k.ok
    /\ calls' = calls \ {k}
    /\ store' = [store EXCEPT ![k.coll] = ReplaceById(@, k.id, k.result[1])]
    /\ effects' = {k.coll}
    /\ opret' = Outcome("update", k.id, "", "resolved", "", "")
    /\ UNCHANGED <<remote, issued, nextId, fetchVars, lineVars, outerVars>>

\* The response of a delete arrives: the record with that id is removed.
DeleteDone(k) ==
    /\ effects = {}
    /\ k \in calls /\ k.op = "delete" /\ k.ok
    /\ calls' = calls \ {k}
    /\ store' = [store EXCEPT ![k.coll] = RemoveById(@, k.id)]
    /\ effects' = {k.coll}
    /\ opret' = Outcome("delete", k.id, "", "resolved", "", "")
    /\ UNCHANGED <<remote, issued, nextId, fetchVars, lineVars, outerVars>>

\* The response of a status update arrives: the order with that id is
\* replaced by the response.
StatusDone(k) ==
    /\ effects = {}
    /\ k \in calls /\ k.op = "status" /\ k.ok
    /\ calls' = calls \ {k}
    /\ store' = [store EXCEPT ![k.coll] = ReplaceById(@, k.id, k.result[1])]
    /\ effects' = {k.coll}
    /\ opret' = Outcome("status", k.id, k.status, "resolved", "",
                        IF Has(store[k.coll], k.id)
                        THEN Get(store[k.coll], k.id).status ELSE "")
    /\ UNCHANGED <<remote, issued, nextId, fetchVars, lineVars, outerVars>>

\* Mutant of MutationFailed: the failed request is sent again.
MutationFailedRetries(k) ==
    /\ effects = {}
    /\ k \in calls /\ ~k.ok
    /\ calls' = (calls \ {k}) \cup {[k EXCEPT !.n = issued + 1]}
    /\ issued' = issued + 1
    /\ opret' = Outcome(k.op, k.id, k.status, "rejected", ErrRequest, "")
    /\ UNCHANGED <<store, remote, effects, nextId, fetchVars, lineVars, outerVars>>

\* catch branch of every create / update / delete / status function: the
\* error is logged and thrown again, no state is set.
MutationFailed(k) ==
    /\ effects = {}
    /\ k \in calls /\ ~k.ok
    /\ calls' = calls \ {k}
    /\ opret' = Outcome(k.op, k.id, k.status, "rejected", ErrRequest, "")
    /\ UNCHANGED <<store, remote, effects, issued, nextId, fetchVars,
                   lineVars, outerVars>>

\* ------------------------------------------------------------------------
\* createActionItem / updateActionItem / deleteActionItem
\* ------------------------------------------------------------------------
ActionItem(id, order, complaint, cause) ==
    [id |-> id, service_order_id |-> order, complaint |-> complaint,
     cause |-> cause]

\* Remote service orders that own action items.
ItemOrders ==
    << [id |-> 1, status |-> "service_requested", note |-> "a",
        complaints |-> << Complaint(1, Brakes) >>,
        action_items |-> << ActionItem(1, 1, "noise", ""),
                            ActionItem(2, 1, "leak", "") >>],
       [id |-> 2, status |-> "service_requested", note |-> "a",
        complaints |-> << Complaint(1, Brakes) >>,
        action_items |-> << ActionItem(3, 2, "noise", "") >>] >>

ItemRemote == [InitRemote EXCEPT !["serviceOrders"] = ItemOrders]

ItemComplaintInputs == {"", "smoke"}
ItemCauseInputs == {"worn"}
ErrItemComplaint == "Complaint is required for action items"

HasItem(so, actionItemId) ==
    \E j \in DOMAIN so.action_items : so.action_items[j].id = actionItemId

KnownItemIds ==
    ItemIds(store["serviceOrders"]) \cup ItemIds(remote["serviceOrders"])

ItemCall(n, op, order, id, ok, result) ==
    [n |-> n, coll |-> "serviceOrders", op |-> op, id |-> id, status |-> "",
     ok |-> ok, result |-> result, order |-> order]

\* What the remote store does with the three requests.
ServerItemCreated(serviceOrderId, complaint) ==
    ActionItem(nextId["actionItems"], serviceOrderId, complaint, "")

ServerItemPatched(item, cause) == [item EXCEPT !.cause = cause]

ServerItemReplaced(orders, result) ==
    [i \in DOMAIN orders |->
        [orders[i] EXCEPT !.action_items = ReplaceById(@, result.id, result)]]

ServerItemDeleted(orders, actionItemId) ==
    [i \in DOMAIN orders |->
        [orders[i] EXCEPT !.action_items = RemoveById(@, actionItemId)]]

\* createActionItem up to the await; api.actionItems.create throws before
\* any request when data.complaint is missing.
CreateActionItemCall(serviceOrderId, complaint, ok) ==
    /\ effects = {}
    /\ IF complaint = ""
       THEN /\ opret' = Outcome("createItem", 0, "", "rejected",
                                ErrItemComplaint, "")
            /\ UNCHANGED <<calls, issued, nextId, remote>>
       ELSE LET done == ok /\ Has(remote["serviceOrders"], serviceOrderId)
                result == ServerItemCreated(serviceOrderId, complaint)
                Add(so) == IF so.id = serviceOrderId
                           THEN [so EXCEPT !.action_items = Append(@, result)]
                           ELSE so
            IN /\ issued' = issued + 1
               /\ calls' = calls \cup
                     {ItemCall(issued + 1, "createItem", serviceOrderId,
                               result.id, done,
                               IF done THEN << result >> ELSE << >>)}
               /\ IF done
                  THEN /\ remote' = [remote EXCEPT !["serviceOrders"] =
                                        [i \in DOMAIN @ |-> Add(@[i])]]
                       /\ nextId' = [nextId EXCEPT !["actionItems"] = @ + 1]
                  ELSE UNCHANGED <<remote, nextId>>
               /\ opret' = Outcome("createItem", result.id, "", "sent", "", "")
    /\ UNCHANGED <<store, effects, fetchVars, lineVars, outerVars>>

\* The same placing the new item first.
CreateActionItemDonePrepends(k) ==
    /\ effects = {}
    /\ k \in calls /\ k.op = "createItem" /\ k.ok
    /\ calls' = calls \ {k}
    /\ LET Add(so) == IF so.id = k.order
                      THEN [so EXCEPT !.action_items = << k.result[1] >> \o @]
                      ELSE so
       IN store' = [store EXCEPT !["serviceOrders"] =
                    [i \in DOMAIN @ |-> Add(@[i])]]
    /\ effects' = {"serviceOrders"}
    /\ opret' = Outcome("createItem", k.id, "", "resolved", "", "")
    /\ UNCHANGED <<remote, issued, nextId, fetchVars, lineVars, outerVars>>

\* createActionItem after the await.
CreateActionItemDone(k) ==
    /\ effects = {}
    /\ k \in calls /\ k.op = "createItem" /\ k.ok
    /\ calls' = calls \ {k}
    /\ LET Add(so) == IF so.id = k.order
                      THEN [so EXCEPT !.action_items = Append(@, k.result[1])]
                      ELSE so
       IN store' = [store EXCEPT !["serviceOrders"] =
                    [i \in DOMAIN @ |-> Add(@[i])]]
    /\ effects' = {"serviceOrders"}
    /\ opret' = Outcome("createItem", k.id, "", "resolved", "", "")
    /\ UNCHANGED <<remote, issued, nextId, fetchVars, lineVars, outerVars>>

\* updateActionItem up to the await.
UpdateActionItemCall(actionItemId, cause, ok) ==
    /\ effects = {}
    /\ LET done == ok /\ actionItemId \in ItemIds(remote["serviceOrders"])
           owner == CHOOSE so \in {remote["serviceOrders"][i] :
                                      i \in DOMAIN remote["serviceOrders"]} :
                        HasItem(so, actionItemId)
           result == ServerItemPatched(Get(owner.action_items, actionItemId),
                                       cause)
       IN /\ calls' = calls \cup
                {ItemCall(issued + 1, "updateItem", 0, actionItemId, done,
                          IF done THEN << result >> ELSE << >>)}
          /\ remote' = IF done
                       THEN [remote EXCEPT !["serviceOrders"] =
                                ServerItemReplaced(@, result)]
                       ELSE remote
    /\ issued' = issued + 1
    /\ opret' = Outcome("updateItem", actionItemId, "", "sent", "", "")
    /\ UNCHANGED <<store, effects, nextId, fetchVars, lineVars, outerVars>>

\* updateActionItem after the await.
UpdateActionItemDone(k) ==
    /\ effects = {}
    /\ k \in calls /\ k.op = "updateItem" /\ k.ok
    /\ calls' = calls \ {k}
    /\ LET Swap(so) ==
               IF HasItem(so, k.id)
               THEN [so EXCEPT !.action_items =
                        [j \in DOMAIN @ |->
                            IF @[j].id = k.id THEN k.result[1] ELSE @[j]]]
               ELSE so
       IN store' = [store EXCEPT !["serviceOrders"] =
                    [i \in DOMAIN @ |-> Swap(@[i])]]
    /\ effects' = {"serviceOrders"}
    /\ opret' = Outcome("updateItem", k.id, "", "resolved", "", "")
    /\ UNCHANGED <<remote, issued, nextId, fetchVars, lineVars, outerVars>>

\* deleteActionItem up to the await.
DeleteActionItemCall(actionItemId, ok) ==
    /\ effects = {}
    /\ LET done == ok /\ actionItemId \in ItemIds(remote["serviceOrders"])
       IN /\ calls' = calls \cup
                {ItemCall(issued + 1, "deleteItem", 0, actionItemId, done,
                          << >>)}
          /\ remote' = IF done
                       THEN [remote EXCEPT !["serviceOrders"] =
                                ServerItemDeleted(@, actionItemId)]
                       ELSE remote
    /\ issued' = issued + 1
    /\ opret' = Outcome("deleteItem", actionItemId, "", "sent", "", "")
    /\ UNCHANGED <<store, effects, nextId, fetchVars, lineVars, outerVars>>

\* deleteActionItem after the await.
DeleteActionItemDone(k) ==
    /\ effects = {}
    /\ k \in calls /\ k.op = "deleteItem" /\ k.ok
    /\ calls' = calls \ {k}
    /\ LET Other(item) == item.id # k.id
           Drop(so) ==
               IF HasItem(so, k.id)
               THEN [so EXCEPT !.action_items = SelectSeq(@, Other)]
               ELSE so
       IN store' = [store EXCEPT !["serviceOrders"] =
                    [i \in DOMAIN @ |-> Drop(@[i])]]
    /\ effects' = {"serviceOrders"}
    /\ opret' = Outcome("deleteItem", k.id, "", "resolved", "", "")
    /\ UNCHANGED <<remote, issued, nextId, fetchVars, lineVars, outerVars>>

\* ------------------------------------------------------------------------
\* api.actionItems.addLineItem: read the action item, append, write back.
\* ------------------------------------------------------------------------
LineItemInputs == {"x", "y"}

\* actionItem.line_items || []
LineItemsOrEmpty(a) ==
    IF "line_items" \in DOMAIN a THEN a.line_items ELSE << >>

\* Mutant of UpdatedLineItems: the new line item is left out.
UpdatedLineItemsDropsNew(a, lineItem) == LineItemsOrEmpty(a)

\* [...(actionItem.line_items || []), lineItem]
UpdatedLineItems(a, lineItem) == Append(LineItemsOrEmpty(a), lineItem)

\* The stored action item after a PATCH with { line_items }.
ServerPatchedItem(a, lineItems) == [id |-> a.id, line_items |-> lineItems]

\* addLineItem up to its getById request; the remote store reads now.
AddLineItemCall(k, lineItem, ok) ==
    /\ lineCalls[k].phase = "idle"
    /\ lineClock' = lineClock + 1
    /\ lineCalls' = [lineCalls EXCEPT ![k] =
            [phase |-> "reading", item |-> lineItem, ok |-> ok,
             read |-> IF ok THEN << actionItem >> ELSE << >>,
             readAt |-> IF ok THEN lineClock + 1 ELSE 0, wroteAt |-> 0,
             op |-> "add", index |-> 0, sent |-> 1]]
    /\ UNCHANGED <<actionItem, store, remote, effects, fetchVars, mutVars, outerVars>>

\* The action item arrives: the list is extended and sent back with
\* api.actionItems.update; the remote store writes now when ok.
AddLineItemRead(k, ok) ==
    /\ lineCalls[k].phase = "reading" /\ lineCalls[k].ok
    /\ lineCalls[k].op = "add"
    /\ lineClock' = lineClock + 1
    /\ lineCalls' = [lineCalls EXCEPT ![k].phase = "writing", ![k].ok = ok,
                        ![k].wroteAt = IF ok THEN lineClock + 1 ELSE 0,
                        ![k].sent = 2]
    /\ actionItem' =
          IF ok
          THEN ServerPatchedItem(actionItem,
                   UpdatedLineItems(lineCalls[k].read[1], lineCalls[k].item))
          ELSE actionItem
    /\ UNCHANGED <<store, remote, effects, fetchVars, mutVars, outerVars>>

\* The response of the update arrives: addLineItem resolves.
AddLineItemDone(k) ==
    /\ lineCalls[k].phase = "writing" /\ lineCalls[k].ok
    /\ lineCalls' = [lineCalls EXCEPT ![k].phase = "done"]
    /\ UNCHANGED <<actionItem, lineClock, store, remote, effects, fetchVars,
                   mutVars, outerVars>>

\* getById or update fails: addLineItem rejects.
AddLineItemFailed(k) ==
    /\ lineCalls[k].phase \in {"reading", "writing"} /\ ~lineCalls[k].ok
    /\ lineCalls' = [lineCalls EXCEPT ![k].phase = "failed"]
    /\ UNCHANGED <<actionItem, lineClock, store, remote, effects, fetchVars,
                   mutVars, outerVars>>

\* ------------------------------------------------------------------------
\* updateLineItem / removeLineItem
\* ------------------------------------------------------------------------
\* lineItemIndex as callers pass it, counted from 0.
IndexInputs == {0, 1}

\* The same test taking the index one past the end as present.
HasIndexOnePastEnd(a, lineItemIndex) ==
    /\ "line_items" \in DOMAIN a
    /\ lineItemIndex \in 0..Len(a.line_items)

\* actionItem.line_items && actionItem.line_items[lineItemIndex]
HasIndex(a, lineItemIndex) ==
    /\ "line_items" \in DOMAIN a
    /\ lineItemIndex + 1 \in DOMAIN a.line_items

\* updatedLineItems[lineItemIndex] = { ...old, ...lineItem }: the fields of
\* the new line item take the place of the old ones.
MergedLineItems(a, lineItemIndex, lineItem) ==
    [j \in DOMAIN a.line_items |->
        IF j = lineItemIndex + 1 THEN lineItem ELSE a.line_items[j]]

\* actionItem.line_items.filter((_, index) => index !== lineItemIndex)
WithoutLineItem(a, lineItemIndex) ==
    IF lineItemIndex + 1 \in DOMAIN a.line_items
    THEN SubSeq(a.line_items, 1, lineItemIndex) \o
         SubSeq(a.line_items, lineItemIndex + 2, Len(a.line_items))
    ELSE a.line_items

\* updateLineItem / removeLineItem up to the getById request; the remote
\* store reads now.
IndexedCall(k, op, lineItemIndex, lineItem, ok) ==
    /\ lineCalls[k].phase = "idle"
    /\ lineClock' = lineClock + 1
    /\ lineCalls' = [lineCalls EXCEPT ![k] =
            [phase |-> "reading", item |-> lineItem, ok |-> ok,
             read |-> IF ok THEN << actionItem >> ELSE << >>,
             readAt |-> IF ok THEN lineClock + 1 ELSE 0, wroteAt |-> 0,
             op |-> op, index |-> lineItemIndex, sent |-> 1]]
    /\ UNCHANGED <<actionItem, store, remote, effects, fetchVars, mutVars,
                   outerVars>>

UpdateLineItemCall(k, lineItemIndex, lineItem, ok) ==
    IndexedCall(k, "update", lineItemIndex, lineItem, ok)

RemoveLineItemCall(k, lineItemIndex, ok) ==
    IndexedCall(k, "remove", lineItemIndex, "", ok)

\* The action item arrives. Without the index the call throws 'Line item
\* not found'; with it the new list is sent with api.actionItems.update and
\* the remote store writes now when ok.
IndexedRead(k, ok) ==
    /\ lineCalls[k].phase = "reading" /\ lineCalls[k].ok
    /\ lineCalls[k].op \in {"update", "remove"}
    /\ LET a == lineCalls[k].read[1]
           index == lineCalls[k].index
       IN IF ~HasIndex(a, index)
          THEN /\ lineCalls' = [lineCalls EXCEPT ![k].phase = "notfound"]
               /\ UNCHANGED <<actionItem, lineClock>>
          ELSE /\ lineClock' = lineClock + 1
               /\ lineCalls' = [lineCalls EXCEPT
                      ![k].phase = "writing", ![k].ok = ok,
                      ![k].wroteAt = IF ok THEN lineClock + 1 ELSE 0,
                      ![k].sent = 2]
               /\ actionItem' =
                     IF ok
                     THEN ServerPatchedItem(actionItem,
                             IF lineCalls[k].op = "update"
                             THEN MergedLineItems(a, index, lineCalls[k].item)
                             ELSE WithoutLineItem(a, index))
                     ELSE actionItem
    /\ UNCHANGED <<store, remote, effects, fetchVars, mutVars, outerVars>>

\* ------------------------------------------------------------------------
\* Specifications.  The bounds are conjoined to the next-state relation:
\* a step that would leave them is not explored.
\* ------------------------------------------------------------------------
Within(maxInflight, maxBackground, maxTimers, maxChain) ==
    /\ \A c \in Collections :
          /\ BagCardinality(inflight[c]) <=
                (IF c = focus THEN maxInflight ELSE maxBackground)
          /\ BagCardinality(timers[c]) <= maxTimers
          /\ \A r \in BagToSet(inflight[c]) : r.chain <= maxChain
    /\ now <= StartTime + MaxTicks * TickMs

\* Spec: list responses of the focus collection succeed or fail, time passes.
Bounded == Within(MaxInflight, MaxBackground, MaxTimers, MaxChain)

Next ==
    \/ \E f \in BOOLEAN : CallerFetch(focus, f) /\ Bounded'
    \/ \E r \in BagToSet(inflight[focus]) : FetchSuccess(focus, r) /\ Bounded'
    \/ \E r \in BagToSet(inflight[focus]) : FetchFailure(focus, r) /\ Bounded'
    \/ \E t \in BagToSet(timers[focus]) : TimerFires(focus, t) /\ Bounded'
    \/ RunEffects /\ Bounded'
    \/ Tick /\ Bounded'

Spec == Init /\ [][Next]_vars

\* SpecFailing: every list request of the focus collection fails.
BoundedFailing ==
    Within(MaxInflightFailing, MaxBackgroundFailing, MaxTimersFailing,
           MaxChainFailing)

NextFailing ==
    \/ \E f \in BOOLEAN : CallerFetch(focus, f) /\ BoundedFailing'
    \/ \E r \in BagToSet(inflight[focus]) :
          FetchFailure(focus, r) /\ BoundedFailing'
    \/ \E t \in BagToSet(timers[focus]) :
          TimerFires(focus, t) /\ BoundedFailing'
    \/ RunEffects /\ BoundedFailing'

SpecFailing == Init /\ [][NextFailing]_vars

\* SpecSucceeding: after mount every list request of the focus collection
\* succeeds, time passes, and no consumer calls a fetch function or a
\* filter setter.
NextSucceeding ==
    \/ \E r \in BagToSet(inflight[focus]) :
          FetchSuccess(focus, r) /\ Bounded'
    \/ RunEffects /\ Bounded'
    \/ Tick /\ Bounded'

SpecSucceeding == Init /\ [][NextSucceeding]_vars

\* SpecRetrying: after mount every list request of the focus collection
\* fails and no consumer calls a fetch function.  Every response arrives,
\* every timer fires and the effects of every render run.
NextRetrying ==
    \/ \E r \in BagToSet(inflight[focus]) :
          FetchFailure(focus, r) /\ BoundedFailing'
    \/ \E t \in BagToSet(timers[focus]) :
          TimerFires(focus, t) /\ BoundedFailing'
    \/ RunEffects /\ BoundedFailing'

SpecRetrying == Init /\ [][NextRetrying]_vars /\ WF_vars(NextRetrying)

\* SpecCrud: records are created, updated and deleted while list responses
\* of the focus collection succeed.
WithinCalls(maxCalls, maxInflight, maxBackground) ==
    /\ issued <= maxCalls
    /\ \A c \in Collections :
          BagCardinality(inflight[c]) <=
              (IF c = focus THEN maxInflight ELSE maxBackground)

BoundedCrud == WithinCalls(MaxCallsCrud, MaxInflightCrud, MaxBackgroundCrud)

NextCrud ==
    \/ \E d \in DataInputs, cs \in ComplaintInputs, ok \in BOOLEAN :
          CreateCall(focus, d, cs, ok) /\ BoundedCrud'
    \/ \E id \in KnownIds(focus), d \in DataInputs, ok \in BOOLEAN :
          UpdateCall(focus, id, d, ok) /\ BoundedCrud'
    \/ \E id \in KnownIds(focus), ok \in BOOLEAN :
          DeleteCall(focus, id, ok) /\ BoundedCrud'
    \/ \E k \in calls : CreateDone(k) /\ BoundedCrud'
    \/ \E k \in calls : UpdateDone(k) /\ BoundedCrud'
    \/ \E k \in calls : DeleteDone(k) /\ BoundedCrud'
    \/ \E k \in calls : MutationFailed(k) /\ BoundedCrud'
    \/ \E r \in BagToSet(inflight[focus]) :
          FetchSuccess(focus, r) /\ BoundedCrud'
    \/ RunEffects /\ BoundedCrud'

SpecCrud == Init /\ [][NextCrud]_vars

\* SpecStatus: the status and the fields of service orders are updated
\* once the service orders are loaded.  InitStatus is the state Spec
\* reaches from Init when the first response to the mount effect's
\* fetchServiceOrders() has arrived and the effects of the following render
\* have run: the order list is in memory, and the filter effect's two
\* fetchServiceOrders(true) requests and the other collections' requests
\* are in flight.  No list response arrives while the calls are made.
LoadedRequestsFrom(r) ==
    [c \in Collections |->
        IF c = "serviceOrders"
        THEN LET R(last, data) ==
                    [force |-> TRUE, capRetry |-> 0, capLast |-> last,
                     capData |-> data, chain |-> 0, snap |-> r[c]]
             IN SetToBag({R(Null, << >>)}) (+)
                SetToBag({R(StartTime, r[c])})
        ELSE InitRequests[c] (+)
             SetToBag({[force |-> FALSE, capRetry |-> 0, capLast |-> Null,
                        capData |-> << >>, chain |-> 0,
                        snap |-> r[c]]})]

LoadedFrom(r) ==
    /\ now = StartTime
    /\ store = [c \in Collections |->
                   IF c = "serviceOrders" THEN r[c] ELSE << >>]
    /\ loading = [c \in Collections |-> TRUE]
    /\ error = [c \in Collections |-> ErrNone]
    /\ lastFetched = [c \in Collections |->
                         IF c = "serviceOrders" THEN StartTime ELSE Null]
    /\ retryCount = [c \in Collections |-> 0]
    /\ remote = r
    /\ inflight = LoadedRequestsFrom(r)
    /\ timers = [c \in Collections |-> EmptyBag]
    /\ effects = {}
    /\ ret = Return("serviceOrders", "ok", FALSE, r["serviceOrders"], 0)
    /\ focus = "serviceOrders"
    /\ calls = {}
    /\ issued = 0
    /\ nextId = FirstIds(r)
    /\ opret = Outcome("none", 0, "", "none", "", "")
    /\ actionItem = InitActionItem
    /\ lineCalls = [k \in 1..MaxLineCalls |-> IdleLineCall]
    /\ lineClock = 0

LoadedRequests == LoadedRequestsFrom(InitRemote)

Loaded == LoadedFrom(InitRemote)

InitStatus ==
    /\ Loaded
    /\ dataComplaints = Undefined
    /\ parsed = NotParsed
    /\ page = PageMounted
    /\ pageRemote = PageOrders
    /\ rowItem = NoItem
    /\ priceCell = NotRendered
    /\ serviceOrderFilters = NoFilters
    /\ customerSearchQuery = ""

BoundedStatus == issued <= MaxCallsStatus

\* SpecPrice: the detail panel renders the price cell of a line item.
Amounts == {Unset} \cup {Set(n) : n \in 0..MaxAmount}
RowItems == [price : Amounts, hours : Amounts, rate : Amounts]

InitPrice ==
    /\ Loaded
    /\ dataComplaints = Undefined
    /\ parsed = NotParsed
    /\ page = PageMounted
    /\ pageRemote = PageOrders
    /\ rowItem \in RowItems
    /\ priceCell = NotRendered
    /\ serviceOrderFilters = NoFilters
    /\ customerSearchQuery = ""

RenderPriceCell ==
    /\ priceCell = NotRendered
    /\ priceCell' = PriceCell(rowItem)
    /\ UNCHANGED <<store, remote, effects, fetchVars, mutVars, lineVars,
                   dataComplaints, parsed, page, pageRemote, rowItem,
                   filterVars>>

NextPrice == RenderPriceCell

SpecPrice == InitPrice /\ [][NextPrice]_vars

\* SpecItems: action items of loaded service orders are created, updated
\* and deleted.
InitItems ==
    /\ LoadedFrom(ItemRemote)
    /\ dataComplaints = Undefined
    /\ parsed = NotParsed
    /\ page = PageMounted
    /\ pageRemote = PageOrders
    /\ rowItem = NoItem
    /\ priceCell = NotRendered
    /\ serviceOrderFilters = NoFilters
    /\ customerSearchQuery = ""

BoundedItems == issued <= MaxCallsItems

NextItems ==
    \/ \E id \in KnownIds("serviceOrders"), c \in ItemComplaintInputs,
          ok \in BOOLEAN :
          CreateActionItemCall(id, c, ok) /\ BoundedItems'
    \/ \E id \in KnownItemIds, d \in ItemCauseInputs, ok \in BOOLEAN :
          UpdateActionItemCall(id, d, ok) /\ BoundedItems'
    \/ \E id \in KnownItemIds, ok \in BOOLEAN :
          DeleteActionItemCall(id, ok) /\ BoundedItems'
    \/ \E k \in calls : CreateActionItemDone(k)
    \/ \E k \in calls : UpdateActionItemDone(k)
    \/ \E k \in calls : DeleteActionItemDone(k)
    \/ \E k \in calls : MutationFailed(k)
    \/ RunEffects

SpecItems == InitItems /\ [][NextItems]_vars

\* SpecPage: the service orders page filters its rows and deletes orders.
BoundedPage == page.sent <= MaxPageRequests

NextPage ==
    \/ \E f \in FilterInputs : SetFilterModel(f)
    \/ \E i \in 1..Len(PageOrders) : OpenDeleteDialog(i)
    \/ \E ok \in BOOLEAN : HandleDeleteCall(ok) /\ BoundedPage'
    \/ \E k \in page.deletes, listOk \in BOOLEAN :
          HandleDeleteDone(k, listOk) /\ BoundedPage'
    \/ \E k \in page.deletes : HandleDeleteFailed(k)
    \/ \E r \in page.lists : PageListDone(r)

SpecPage == InitStatus /\ [][NextPage]_vars

\* SpecComplaints: a caller holds some data.complaints, has it parsed, and
\* creates a service order with it.
Alphabet == {"A", "B", ",", " "}
ExampleText == << "A", ",", " ", "B", " ", ",", ",", " ", "C" >>
ComplaintTexts ==
    UNION {[1..n -> Alphabet] : n \in 0..MaxTextLen} \cup {ExampleText}
ComplaintArgs ==
    {Undefined, ArrayOf(<< >>), ArrayOf(<< Complaint(1, Brakes) >>)}
        \cup {StringOf(t) : t \in ComplaintTexts}

InitComplaints ==
    /\ Loaded
    /\ dataComplaints \in ComplaintArgs
    /\ parsed = NotParsed
    /\ page = PageMounted
    /\ pageRemote = PageOrders
    /\ rowItem = NoItem
    /\ priceCell = NotRendered
    /\ serviceOrderFilters = NoFilters
    /\ customerSearchQuery = ""

Parse ==
    /\ effects = {}
    /\ dataComplaints.kind = "string"
    /\ ~parsed.done
    /\ parsed' = [done |-> TRUE,
                  value |-> parseMultipleComplaints(dataComplaints.text)]
    /\ UNCHANGED <<store, remote, effects, fetchVars, mutVars, lineVars,
                   dataComplaints, page, pageRemote, rowItem, priceCell,
                   filterVars>>

BoundedComplaints == issued <= MaxCallsComplaints

NextComplaints ==
    \/ Parse
    \/ \E d \in DataInputs, ok \in BOOLEAN :
          CreateCall(focus, d, dataComplaints, ok) /\ BoundedComplaints'
    \/ \E k \in calls : CreateDone(k)
    \/ \E k \in calls : MutationFailed(k)
    \/ RunEffects

SpecComplaints == InitComplaints /\ [][NextComplaints]_vars

\* SpecRead: from the loaded state, service orders are created, updated and
\* deleted, list responses succeed and a consumer reads the collection
\* without forceRefresh.
BoundedRead == WithinCalls(MaxCallsRead, MaxInflightRead, MaxBackgroundRead)

NextRead ==
    \/ \E d \in DataInputs, cs \in ComplaintInputs, ok \in BOOLEAN :
          CreateCall(focus, d, cs, ok) /\ BoundedRead'
    \/ \E id \in KnownIds(focus), d \in DataInputs, ok \in BOOLEAN :
          UpdateCall(focus, id, d, ok) /\ BoundedRead'
    \/ \E id \in KnownIds(focus), ok \in BOOLEAN :
          DeleteCall(focus, id, ok) /\ BoundedRead'
    \/ \E k \in calls : CreateDone(k) /\ BoundedRead'
    \/ \E k \in calls : UpdateDone(k) /\ BoundedRead'
    \/ \E k \in calls : DeleteDone(k) /\ BoundedRead'
    \/ \E k \in calls : MutationFailed(k) /\ BoundedRead'
    \/ \E r \in BagToSet(inflight[focus]) :
          FetchSuccess(focus, r) /\ BoundedRead'
    \/ CallerFetch(focus, FALSE) /\ BoundedRead'
    \/ RunEffects /\ BoundedRead'

SpecRead == InitStatus /\ [][NextRead]_vars

\* SpecFilter: from the loaded state, the provider's filters and the
\* listing page's filter controls change while list responses succeed.
BoundedFilter ==
    \A c \in Collections :
        BagCardinality(inflight[c]) <=
            (IF c = focus THEN MaxInflightFilter ELSE MaxBackgroundFilter)

NextFilter ==
    \/ \E n \in FilterNames, v \in FilterValues :
          SetServiceOrderFilter(n, v) /\ BoundedFilter'
    \/ ClearServiceOrderFilters /\ BoundedFilter'
    \/ \E q \in SearchInputs : SearchCustomers(q) /\ BoundedFilter'
    \/ RunEffects /\ BoundedFilter'
    \/ \E r \in BagToSet(inflight[focus]) :
          FetchSuccess(focus, r) /\ BoundedFilter'
    \/ \E f \in FilterInputs : SetFilterModel(f) /\ BoundedFilter'
    \/ \E r \in page.lists : PageListDone(r) /\ BoundedFilter'

SpecFilter == InitStatus /\ [][NextFilter]_vars

NextStatus ==
    \/ \E id \in KnownIds(focus), s \in StatusInputs, ok \in BOOLEAN :
          StatusCall(id, s, ok) /\ BoundedStatus'
    \/ \E id \in KnownIds(focus), d \in DataInputs, ok \in BOOLEAN :
          UpdateCall(focus, id, d, ok) /\ BoundedStatus'
    \/ \E k \in calls : StatusDone(k) /\ BoundedStatus'
    \/ \E k \in calls : UpdateDone(k) /\ BoundedStatus'
    \/ \E k \in calls : MutationFailed(k) /\ BoundedStatus'
    \/ RunEffects /\ BoundedStatus'

SpecStatus == InitStatus /\ [][NextStatus]_vars

\* SpecAll: every list request of the focus collection fails while the
\* list requests of one other collection, the peer, succeed; the retry
\* timers stay pending.
Peer == IF focus = "technicians" THEN "customers" ELSE "technicians"

BoundedAll == Within(MaxInflightAll, MaxInflightAll, MaxTimersAll, MaxChainAll)

NextAll ==
    \/ \E r \in BagToSet(inflight[focus]) :
          FetchFailure(focus, r) /\ BoundedAll'
    \/ \E r \in BagToSet(inflight[Peer]) :
          FetchSuccess(Peer, r) /\ BoundedAll'
    \/ RunEffects /\ BoundedAll'

SpecAll == Init /\ [][NextAll]_vars

\* SpecLine: addLineItem calls on one action item, interleaved.
NextLine ==
    \/ \E k \in DOMAIN lineCalls, i \in LineItemInputs, ok \in BOOLEAN :
          AddLineItemCall(k, i, ok)
    \/ \E k \in DOMAIN lineCalls, ok \in BOOLEAN : AddLineItemRead(k, ok)
    \/ \E k \in DOMAIN lineCalls : AddLineItemDone(k)
    \/ \E k \in DOMAIN lineCalls : AddLineItemFailed(k)

SpecLine == Init /\ [][NextLine]_vars

\* SpecIndex: line items are added, and updated or removed by index.
NextIndex ==
    \/ \E k \in DOMAIN lineCalls, i \in LineItemInputs, ok \in BOOLEAN :
          AddLineItemCall(k, i, ok)
    \/ \E k \in DOMAIN lineCalls, ok \in BOOLEAN : AddLineItemRead(k, ok)
    \/ \E k \in DOMAIN lineCalls, n \in IndexInputs, i \in LineItemInputs,
          ok \in BOOLEAN : UpdateLineItemCall(k, n, i, ok)
    \/ \E k \in DOMAIN lineCalls, n \in IndexInputs, ok \in BOOLEAN :
          RemoveLineItemCall(k, n, ok)
    \/ \E k \in DOMAIN lineCalls, ok \in BOOLEAN : IndexedRead(k, ok)
    \/ \E k \in DOMAIN lineCalls : AddLineItemDone(k)
    \/ \E k \in DOMAIN lineCalls : AddLineItemFailed(k)

SpecIndex == InitStatus /\ [][NextIndex]_vars

\* ========================================================================
\* Claims
\* ========================================================================
FiveMinutes == 5 * 60 * 1000

\* A fetch of c succeeded at lastFetched[c] and less than five minutes
\* have passed since.
InTTLWindow(c) == lastFetched[c] # Null /\ now < lastFetched[c] + FiveMinutes

\* The step completes a list request of c (its response arrived).
Responded(c) == BagCardinality(inflight'[c]) < BagCardinality(inflight[c])

\* C1: within five minutes of a successful fetch of a collection, no fetch
\* without forceRefresh sends a list request, and every such fetch returns
\* the collection held in memory.
C1_CachedReadNoNetwork ==
    [][\A c \in Collections : InTTLWindow(c) =>
          /\ \A r \in BagToSet(inflight'[c]) :
                ~r.force =>
                    CopiesIn(r, inflight'[c]) <= CopiesIn(r, inflight[c])
          /\ (/\ ret' # ret
              /\ ret'.coll = c
              /\ ~ret'.force
              /\ ret'.via \in {"cache", "network"})
             => (/\ ret'.via = "cache"
                 /\ ret'.value = store[c])]_vars

\* C1, restricted to the fetch function of the current render (called by a
\* consumer or by the mount effect, not by a retry timer): within five
\* minutes of a successful fetch it sends no list request and returns the
\* collection held in memory.
C1_ViaCurrentFunction ==
    [][\A c \in Collections : InTTLWindow(c) =>
          /\ \A r \in BagToSet(inflight'[c]) :
                (~r.force /\ r.chain = 0) =>
                    CopiesIn(r, inflight'[c]) <= CopiesIn(r, inflight[c])
          /\ (/\ ret' # ret
              /\ ret'.coll = c
              /\ ~ret'.force
              /\ ret'.via \in {"cache", "network"}
              /\ timers' = timers)
             => (/\ ret'.via = "cache"
                 /\ ret'.value = store[c]
                 /\ inflight' = inflight)]_vars

C1_ViaCurrentFunctionWitness ==
    /\ ret.via = "cache"
    /\ InTTLWindow(ret.coll)
    /\ now > lastFetched[ret.coll]
    /\ ret.value = store[ret.coll]
    /\ ret.value # << >>

\* C2: no list request is the fourth or a later automatic re-invocation
\* of one fetch: at most MAX_RETRY_COUNT timer retries follow a fetch.
C2_AtMostThreeRetries ==
    \A c \in Collections :
        \A r \in BagToSet(inflight[c]) : r.chain <= MAX_RETRY_COUNT

StoredLineItems ==
    {LineItemsOrEmpty(actionItem)[n] : n \in DOMAIN LineItemsOrEmpty(actionItem)}

\* The line items call k found when it read the action item.
ReadLineItems(k) ==
    {LineItemsOrEmpty(lineCalls[k].read[1])[n] :
        n \in DOMAIN LineItemsOrEmpty(lineCalls[k].read[1])}

\* Calls i and j both wrote, each read before the other wrote, j wrote
\* last of all calls, and they added different line items that neither
\* had found in the list.
Raced(i, j) ==
    /\ i # j
    /\ lineCalls[i].wroteAt > 0
    /\ lineCalls[j].wroteAt > lineCalls[i].wroteAt
    /\ lineCalls[i].readAt < lineCalls[j].wroteAt
    /\ lineCalls[j].readAt < lineCalls[i].wroteAt
    /\ \A k \in DOMAIN lineCalls : lineCalls[k].wroteAt <= lineCalls[j].wroteAt
    /\ lineCalls[i].item # lineCalls[j].item
    /\ {lineCalls[i].item, lineCalls[j].item} \cap
          (ReadLineItems(i) \cup ReadLineItems(j)) = {}

\* C4: when two addLineItem calls on the same action item both read the
\* action item before either wrote it back, the stored line_items hold
\* exactly one of the two new line items: the one of the later write.
C4_LostUpdate ==
    \A i, j \in DOMAIN lineCalls :
        Raced(i, j) =>
            /\ lineCalls[j].item \in StoredLineItems
            /\ lineCalls[i].item \notin StoredLineItems
            /\ LineItemsOrEmpty(actionItem) =
                  Append(LineItemsOrEmpty(lineCalls[j].read[1]),
                         lineCalls[j].item)

C4_Witness ==
    \E i, j \in DOMAIN lineCalls :
        /\ Raced(i, j)
        /\ lineCalls[i].phase = "done"
        /\ lineCalls[j].phase = "done"
        /\ Len(LineItemsOrEmpty(actionItem)) = 1

\* C5: when the remote call of a create, update or delete fails, the
\* request is not sent again (no request, list request or timer is added),
\* the promise rejects with the error, and the collections in memory and
\* the remote store are left as they were.
C5_MutationNotRetried ==
    [][\A k \in calls :
          (k \notin calls' /\ ~k.ok /\ k.op \in {"create", "update", "delete"})
          => /\ calls' = calls \ {k}
             /\ inflight' = inflight
             /\ timers' = timers
             /\ remote' = remote
             /\ store' = store
             /\ opret'.event = "rejected"
             /\ opret'.op = k.op
             /\ opret'.error = ErrRequest]_vars

C5_Witness ==
    /\ opret.event = "rejected"
    /\ opret.op = "delete"
    /\ opret.error = ErrRequest
    /\ calls = {}
    /\ issued = 1
    /\ Has(store[focus], opret.id)

\* C6: a status update with a status outside the eleven enumerated values
\* is rejected with InvalidStatus: no request is sent, and the remote store
\* and the collection in memory are unchanged.
C6_InvalidStatusRejected ==
    [][(/\ opret' # opret
        /\ opret'.op = "status"
        /\ opret'.status \notin SERVICE_ORDER_STATUSES
        /\ calls \subseteq calls')
       => /\ opret'.event = "rejected"
          /\ opret'.error = "InvalidStatus"
          /\ calls' = calls
          /\ remote' = remote
          /\ store' = store]_vars

\* C7: a status update to an enumerated status is never rejected by the
\* client, whatever the current status: the request is sent, and when the
\* remote call succeeds the promise resolves and the order in memory is
\* the updated order of the response.
C7_TransitionsPermissive ==
    [][/\ (/\ opret' # opret
           /\ opret'.op = "status"
           /\ opret'.status \in SERVICE_ORDER_STATUSES
           /\ calls \subseteq calls')
          => /\ opret'.event = "sent"
             /\ \E k \in calls' \ calls :
                   /\ k.op = "status"
                   /\ k.id = opret'.id
                   /\ k.status = opret'.status
       /\ \A k \in calls \ calls' :
             (k.op = "status" /\ k.ok /\ k.status \in SERVICE_ORDER_STATUSES)
             => /\ opret'.event = "resolved"
                /\ opret'.status = k.status
                /\ DOMAIN store'[k.coll] = DOMAIN store[k.coll]
                /\ \A n \in DOMAIN store[k.coll] :
                      store[k.coll][n].id = k.id =>
                          store'[k.coll][n] = k.result[1]]_vars

C7_Witness ==
    /\ opret.event = "resolved"
    /\ opret.op = "status"
    /\ opret.was = "repair_complete"
    /\ opret.status = "service_requested"
    /\ Has(store["serviceOrders"], opret.id)
    /\ Get(store["serviceOrders"], opret.id).status = "service_requested"

\* C8: after a successful status update, the order in memory differs from
\* what it was only in its status, and the other orders are unchanged.
C8_OnlyStatusChanges ==
    [][\A k \in calls \ calls' :
          (k.op = "status" /\ k.ok) =>
              store'[k.coll] =
                  [n \in DOMAIN store[k.coll] |->
                      IF store[k.coll][n].id = k.id
                      THEN [store[k.coll][n] EXCEPT !.status = k.status]
                      ELSE store[k.coll][n]]]_vars

\* C9: a successful list request stores the fetched data, stamps the
\* collection with the current time and resets its retryCount to 0.
C9_SuccessResets ==
    [][\A c \in Collections :
          (ret'.via = "ok" /\ ret'.coll = c /\ Responded(c)) =>
              /\ \E r \in BagToSet(inflight[c]) :
                    /\ inflight'[c] = inflight[c] (-) SetToBag({r})
                    /\ store'[c] = r.snap
              /\ lastFetched'[c] = now
              /\ retryCount'[c] = 0]_vars

C9_Witness ==
    /\ ret.via = "ok"
    /\ ret.was > 0
    /\ retryCount[ret.coll] = 0
    /\ lastFetched[ret.coll] = now
    /\ store[ret.coll] = ret.value
    /\ ret.value # << >>

\* C10: a retry timer is scheduled after 2000 ms * 2^retryCount, with the
\* retryCount of the collection at the time of the failure, and that
\* failure increments retryCount by one.
C10_DelayFromRetryCount ==
    [][\A c \in Collections : \A t \in BagToSet(timers'[c]) :
          CopiesIn(t, timers'[c]) > CopiesIn(t, timers[c]) =>
              /\ t.delay = RetryBaseMs * Pow2(retryCount[c])
              /\ retryCount'[c] = retryCount[c] + 1]_vars

\* C11: a fetch with forceRefresh = true always sends a list request,
\* whatever the fetch timestamp of the collection and the age of the
\* collection in memory.
C11_ForceAlwaysFetches ==
    [][\A c \in Collections :
          (/\ ret' # ret
           /\ ret'.coll = c
           /\ ret'.force
           /\ ret'.via \in {"cache", "network"})
          => /\ ret'.via = "network"
             /\ BagCardinality(inflight'[c]) = BagCardinality(inflight[c]) + 1
             /\ \E r \in BagToSet(inflight'[c]) :
                   /\ r.force
                   /\ CopiesIn(r, inflight'[c]) = CopiesIn(r, inflight[c]) + 1]_vars

C11_Witness ==
    /\ ret.via = "network"
    /\ ret.force
    /\ InTTLWindow(ret.coll)
    /\ store[ret.coll] # << >>
    /\ \E r \in BagToSet(inflight[ret.coll]) :
          r.force /\ r.capLast = lastFetched[ret.coll]

\* The step is the response of a list request of c, or the effects of the
\* render that this response caused.
StepOf(c) == Responded(c) \/ (effects = {c} /\ effects' = {})

\* C12: a failure, retry or success of a fetch of one collection leaves the
\* collection in memory, the fetch timestamp, the retryCount and the error
\* of every other collection unchanged, and a pending retry timer of one
\* collection does not keep a fetch of another collection from being made.
C12_CollectionsIndependent ==
    [][\A c \in Collections : \A d \in Collections \ {c} :
          /\ StepOf(c) =>
                /\ store'[d] = store[d]
                /\ lastFetched'[d] = lastFetched[d]
                /\ retryCount'[d] = retryCount[d]
                /\ error'[d] = error[d]
          /\ (timers[c] # EmptyBag /\ effects = {}) =>
                ENABLED CallerFetch(d, TRUE)]_vars

\* The list shows the outcome of the resolved call o: the created record is
\* in it, the updated record (when listed) carries the new data, the
\* deleted record is not in it.
Reflects(list, o) ==
    CASE o.op = "create" -> Has(list, o.id)
      [] o.op = "update" ->
            Has(list, o.id) =>
                (IF focus = "serviceOrders" THEN Get(list, o.id).note
                 ELSE Get(list, o.id).v) \in DataInputs
      [] o.op = "delete" -> ~Has(list, o.id)
      [] OTHER -> TRUE

\* C13: once a create, update or delete has succeeded, a read without
\* forceRefresh made within five minutes of the last successful fetch sends
\* no list request and returns a collection that shows the mutation.
C13_MutationVisibleInCache ==
    [][(/\ opret.event = "resolved"
        /\ opret.op \in {"create", "update", "delete"}
        /\ InTTLWindow(focus)
        /\ ret' # ret
        /\ ret'.coll = focus
        /\ ~ret'.force
        /\ ret'.via \in {"cache", "network"}
        /\ timers' = timers)
       => /\ ret'.via = "cache"
          /\ inflight' = inflight
          /\ Reflects(ret'.value, opret)]_vars

\* A complaints value from which no complaint can be made: nothing, an empty
\* array, or a text of commas and blanks only (the empty text included).
YieldsNoComplaint(c) ==
    \/ c.kind = "undefined"
    \/ c.kind = "array" /\ c.list = << >>
    \/ c.kind = "string" /\ \A i \in 1..Len(c.text) : c.text[i] \in {",", " "}

\* C14: createServiceOrder with a complaints value that yields no complaint
\* fails with the validation error, sends no request, and leaves the
\* collection in memory and the remote store as they were.
C14_EmptyComplaintsRejected ==
    [][(/\ opret' # opret
        /\ opret'.op = "create"
        /\ opret'.event \in {"sent", "rejected"}
        /\ focus = "serviceOrders"
        /\ YieldsNoComplaint(dataComplaints))
       => /\ opret'.event = "rejected"
          /\ opret'.error = ErrComplaint
          /\ calls' = calls
          /\ issued' = issued
          /\ remote' = remote
          /\ store' = store]_vars

C14_Witness ==
    /\ opret.op = "create"
    /\ opret.event = "rejected"
    /\ dataComplaints.kind = "string"
    /\ \E i \in 1..Len(dataComplaints.text) : dataComplaints.text[i] = ","
    /\ \E i \in 1..Len(dataComplaints.text) : dataComplaints.text[i] = " "
    /\ store["serviceOrders"] # << >>
    /\ calls = {}

\* The positions that bound the comma-separated pieces of t, the pieces as
\* pairs of neighbouring bounds, and the non-blank positions of a piece.
Cuts(t) == {0, Len(t) + 1} \cup {i \in 1..Len(t) : t[i] = ","}
Pieces(t) ==
    {p \in Cuts(t) \X Cuts(t) :
        p[1] < p[2] /\ \A k \in Cuts(t) : ~(p[1] < k /\ k < p[2])}
Inked(t, p) == {i \in (p[1] + 1)..(p[2] - 1) : t[i] # " "}
KeptPieces(t) == {p \in Pieces(t) : Inked(t, p) # {}}
Rank(t, p) == Cardinality({q \in KeptPieces(t) : q[1] <= p[1]})
First(S) == CHOOSE i \in S : \A j \in S : i <= j
Last(S) == CHOOSE i \in S : \A j \in S : j <= i

\* C15: parsing a complaints text gives one record per comma-separated piece
\* that is not blank, in the order of the text, numbered 1..n, its
\* description being the piece without leading and trailing blanks; the
\* text "A, B ,, C" gives exactly the records A, B, C.
C15_ParseComplaints ==
    parsed.done =>
        LET t == dataComplaints.text
            v == parsed.value
        IN /\ Len(v) = Cardinality(KeptPieces(t))
           /\ \A p \in KeptPieces(t) :
                 v[Rank(t, p)] =
                     Complaint(Rank(t, p),
                               SubSeq(t, First(Inked(t, p)), Last(Inked(t, p))))
           /\ t = ExampleText =>
                 v = << Complaint(1, << "A" >>), Complaint(2, << "B" >>),
                        Complaint(3, << "C" >>) >>

C15_Witness ==
    /\ parsed.done
    /\ dataComplaints.text = ExampleText
    /\ Len(parsed.value) = 3

\* C16: when a delete of a service order succeeds, the order is no longer
\* among the filtered rows, no list request is sent for that, and the other
\* rows are as before.
C16_DeletedLeavesView ==
    [][\A k \in page.deletes :
          (k.ok /\ k \notin page'.deletes)
          => /\ \A i \in 1..Len(Rows(page')) : Rows(page')[i].id # k.id
             /\ page'.lists = page.lists
             /\ Rows(page') = RemoveOrder(Rows(page), k.id)]_vars

\* The order after as the order before with its action items set to items.
SameBut(before, after, items) ==
    /\ after = [before EXCEPT !.action_items = items]
    /\ after.action_items = items

\* C17: a successful createActionItem appends the returned item at the end
\* of the owning order's action_items; a successful updateActionItem puts
\* the returned item where the item with that id was; a successful
\* deleteActionItem takes the item with that id out; the orders are the
\* same orders in the same places, and every order without the item and
\* every other item is as before.
C17_ActionItemsReconciled ==
    [][\A k \in calls \ calls' :
          (k.ok /\ k.op \in {"createItem", "updateItem", "deleteItem"})
          => LET old == store["serviceOrders"]
                 new == store'["serviceOrders"]
             IN /\ Len(new) = Len(old)
                /\ \A i \in 1..Len(old) :
                      LET was == old[i].action_items
                          is == new[i].action_items
                      IN CASE k.op = "createItem" ->
                                 IF old[i].id = k.order
                                 THEN /\ SameBut(old[i], new[i], is)
                                      /\ Len(is) = Len(was) + 1
                                      /\ is[Len(is)] = k.result[1]
                                      /\ \A j \in 1..Len(was) : is[j] = was[j]
                                 ELSE new[i] = old[i]
                           [] k.op = "updateItem" ->
                                 /\ SameBut(old[i], new[i], is)
                                 /\ Len(is) = Len(was)
                                 /\ \A j \in 1..Len(was) :
                                       is[j] = IF was[j].id = k.id
                                               THEN k.result[1] ELSE was[j]
                           [] k.op = "deleteItem" ->
                                 /\ SameBut(old[i], new[i], is)
                                 /\ \A j \in 1..Len(is) : is[j].id # k.id
                                 /\ \E gone \in SUBSET (1..Len(was)) :
                                       /\ \A j \in gone : was[j].id = k.id
                                       /\ \A j \in 1..Len(was) \ gone :
                                             was[j].id # k.id
                                       /\ Len(is) = Len(was) - Cardinality(gone)
                                       /\ \A j \in 1..Len(was) \ gone :
                                             is[j - Cardinality(
                                                 {g \in gone : g < j})] = was[j]]_vars

C17_Witness ==
    /\ opret.op = "createItem"
    /\ opret.event = "resolved"
    /\ \E i \in DOMAIN store["serviceOrders"] :
          LET items == store["serviceOrders"][i].action_items
          IN /\ Len(items) >= 3
             /\ items[Len(items)].id = opret.id
             /\ items[Len(items)].complaint = "smoke"
             /\ items[1].cause = "worn"
    /\ \E i \in DOMAIN store["serviceOrders"] :
          ~HasItem(store["serviceOrders"][i], opret.id)

\* Call k has just received the action item it asked for.
GotActionItem(k) ==
    /\ lineCalls[k].phase = "reading"
    /\ lineCalls'[k].phase # "reading"
    /\ lineCalls[k].ok
    /\ lineCalls[k].op \in {"update", "remove"}

\* The 0-based index n is not a position of the list the call read.
NoSuchIndex(k) ==
    LET items == LineItemsOrEmpty(lineCalls[k].read[1])
    IN lineCalls[k].index \notin 0..(Len(items) - 1)

\* C18: updateLineItem and removeLineItem with an index that is not in the
\* line_items they read fail with the not-found error and send no update
\* request: the stored line_items stay as they are.
C18_MissingIndexNotFound ==
    [][\A k \in DOMAIN lineCalls :
          (GotActionItem(k) /\ NoSuchIndex(k))
          => /\ lineCalls'[k].phase = "notfound"
             /\ lineCalls'[k].wroteAt = 0
             /\ lineClock' = lineClock
             /\ actionItem' = actionItem]_vars

C18_Witness ==
    \E k \in DOMAIN lineCalls :
        /\ lineCalls[k].phase = "notfound"
        /\ lineCalls[k].op = "update"
        /\ lineCalls[k].index = 1
        /\ Len(LineItemsOrEmpty(lineCalls[k].read[1])) = 1
        /\ LineItemsOrEmpty(actionItem) = LineItemsOrEmpty(lineCalls[k].read[1])

\* C19: an index-based line-item call that fails with the not-found error
\* has sent no request at all, neither a read nor a write.
C19_NotFoundBeforeAnyRequest ==
    \A k \in DOMAIN lineCalls :
        lineCalls[k].phase = "notfound" =>
            /\ lineCalls[k].sent = 0
            /\ lineCalls[k].readAt = 0
            /\ lineCalls[k].wroteAt = 0

\* C20: the price cell shows the price of the line item whenever the price
\* is set, 0 included; otherwise hours times rate whenever both are set;
\* otherwise the placeholder.
C20_EffectivePrice ==
    priceCell # NotRendered =>
        priceCell =
            IF rowItem.price # Unset THEN Dollars(rowItem.price[1])
            ELSE IF rowItem.hours # Unset /\ rowItem.rate # Unset
                 THEN Dollars(rowItem.hours[1] * rowItem.rate[1])
                 ELSE Dash

\* C21: when createServiceOrder succeeds, the returned order is the first
\* of the service orders in memory and the orders held before follow it in
\* the order they had.
C21_CreatePrepends ==
    [][\A k \in calls \ calls' :
          (k.ok /\ k.op = "create" /\ k.coll = "serviceOrders")
          => LET old == store["serviceOrders"]
                 new == store'["serviceOrders"]
             IN /\ Len(new) = Len(old) + 1
                /\ new[1] = k.result[1]
                /\ \A i \in 1..Len(old) : new[i + 1] = old[i]]_vars

C21_Witness ==
    /\ opret.op = "create"
    /\ opret.event = "resolved"
    /\ focus = "serviceOrders"
    /\ Len(store["serviceOrders"]) = 2
    /\ store["serviceOrders"][1].id = opret.id
    /\ store["serviceOrders"][2] = InitRemote["serviceOrders"][1]

\* C22: when updateServiceOrder(id, data) succeeds, every position of the
\* service orders in memory keeps its order, except that the order with
\* that id is replaced where it stands by the returned order; with no
\* such order in memory nothing changes.
C22_UpdateReplacesById ==
    [][\A k \in calls \ calls' :
          (k.ok /\ k.op = "update" /\ k.coll = "serviceOrders")
          => LET old == store["serviceOrders"]
                 new == store'["serviceOrders"]
             IN /\ Len(new) = Len(old)
                /\ \A i \in 1..Len(old) :
                      new[i] = IF old[i].id = k.id THEN k.result[1]
                               ELSE old[i]
                /\ (\A i \in 1..Len(old) : old[i].id # k.id) => new = old]_vars

C22_Witness ==
    /\ opret.op = "update"
    /\ opret.event = "resolved"
    /\ focus = "serviceOrders"
    /\ Len(store["serviceOrders"]) = 2
    /\ store["serviceOrders"][1].id # opret.id
    /\ store["serviceOrders"][2].id = opret.id
    /\ store["serviceOrders"][2] =
          [InitRemote["serviceOrders"][1] EXCEPT !.note = "b"]

C24_LastArrivalWins ==
    [][\A c \in Collections :
          LET old == store[c]
              new == store'[c]
              Landed == {k \in calls \ calls' : k.ok /\ k.coll = c}
          IN /\ (Responded(c) /\ ret'.via = "ok" /\ ret'.coll = c)
                => \E r \in BagToSet(inflight[c]) :
                      /\ CopiesIn(r, inflight'[c]) = CopiesIn(r, inflight[c]) - 1
                      /\ new = r.snap
             /\ \A k \in Landed :
                   new = CASE k.op = "create" ->
                                IF c = "serviceOrders"
                                THEN << k.result[1] >> \o old
                                ELSE old \o << k.result[1] >>
                           [] k.op = "delete" ->
                                SelectSeq(old, LAMBDA o : o.id # k.id)
                           [] OTHER ->
                                [i \in DOMAIN old |->
                                    IF old[i].id = k.id THEN k.result[1]
                                    ELSE old[i]]
             /\ new # old
                => \/ Responded(c) /\ ret'.via = "ok" /\ ret'.coll = c
                   \/ Landed # {}]_vars

\* A list request issued before a write arrives after the write's
\* response: the collection is the list of that request and lacks the write.
C24_Witness ==
    /\ calls = {}
    /\ opret.event = "resolved"
    /\ ret.via = "ok"
    /\ ret.coll = focus
    /\ opret.op = "create"
    /\ store[focus] = ret.value
    /\ Len(store[focus]) = 1
    /\ Len(remote[focus]) = 2

\* C25: in every reachable state the retryCount of every collection lies
\* between 0 and MAX_RETRY_COUNT.
C25_RetryCountInRange ==
    \A c \in Collections : retryCount[c] \in 0..MAX_RETRY_COUNT

C27_SuccessDoesNotRefetch ==
    [][\A c \in Collections :
          (ret.via = "ok" /\ ret.coll = c /\ c \in effects)
          => \A r \in BagToSet(inflight'[c]) :
                r.force => CopiesIn(r, inflight'[c]) <= CopiesIn(r, inflight[c])]_vars

\* C28: the service orders in memory never hold two orders with the same
\* id, and no order's action_items hold two items with the same id.
C28_UniqueIds ==
    LET orders == store["serviceOrders"]
    IN /\ \A i, j \in DOMAIN orders :
             orders[i].id = orders[j].id => i = j
       /\ \A n \in DOMAIN orders :
             \A i, j \in DOMAIN orders[n].action_items :
                orders[n].action_items[i].id = orders[n].action_items[j].id
                => i = j

\* C29: once deleteServiceOrder(id) has succeeded, the service orders in
\* memory hold no order with that id, whatever list responses arrive
\* afterwards.
C29_DeletedStaysDeleted ==
    (opret.op = "delete" /\ opret.event = "resolved")
    => ~Has(store["serviceOrders"], opret.id)

\* C30: for every collection, while the fetch that completed last succeeded
\* its error state is null, and while one of its list requests is in flight
\* its loading flag is true.
C30_ErrorAndLoadingFollowFetches ==
    \A c \in Collections :
        /\ (ret.coll = c /\ ret.via = "ok") => error[c] = ErrNone
        /\ inflight[c] # EmptyBag => loading[c]
====
